---- MODULE Spec2Model ----
(***************************************************************************)
(* Model of update_bt_trackers.py: the tracker reconciliation engine of    *)
(* the aria2 BT tracker updater (fetch with retry, merge, config-file      *)
(* rewrite with backup, JSON-RPC push, mode orchestration, dry run).       *)
(*                                                                         *)
(* Text is modelled as a sequence of tokens.  A token is a piece of the    *)
(* real text ("bt-tracker=", "http://", ",", " ", "\n", one host letter),  *)
(* and the real string is the concatenation of the tokens.  A write that   *)
(* stops inside a token leaves the characters of it that were written as   *)
(* the last token of the text (see Torn).  Whitespace and the separators   *)
(* are tokens of one character, so such a part never holds one, and no     *)
(* part followed by the tokens a later write puts after it reads as a      *)
(* whole token: stripping, splitting and prefix tests on the tokens are    *)
(* those on the real string.  Strings are compared character by character  *)
(* (StrLess).                                                              *)
(***************************************************************************)
EXTENDS Integers, Sequences, FiniteSets, TLC

\* ------------------------------------------------------------------ text

NL == "\n"
SP == " "
COMMA == ","
HASH == "#"
DIRECTIVE == "bt-tracker="

\* Code points of the characters the texts are made of.
CharRank ==
  [c \in {"\n", " ", "#", ",", "-", "/", ":", "=", "a", "b", "c",
          "d", "e", "f", "h", "i", "k", "p", "r", "s", "t", "u",
          "x", "y", "z"} |->
     CASE c = "\n" -> 10
       [] c = " " -> 32
       [] c = "#" -> 35
       [] c = "," -> 44
       [] c = "-" -> 45
       [] c = "/" -> 47
       [] c = ":" -> 58
       [] c = "=" -> 61
       [] c = "a" -> 97
       [] c = "b" -> 98
       [] c = "c" -> 99
       [] c = "d" -> 100
       [] c = "e" -> 101
       [] c = "f" -> 102
       [] c = "h" -> 104
       [] c = "i" -> 105
       [] c = "k" -> 107
       [] c = "p" -> 112
       [] c = "r" -> 114
       [] c = "s" -> 115
       [] c = "t" -> 116
       [] c = "u" -> 117
       [] c = "x" -> 120
       [] c = "y" -> 121
       [] c = "z" -> 122]

\* str.strip() removes leading and trailing whitespace, newlines included.
Whitespace == {SP, NL}

RECURSIVE LStrip(_)
LStrip(s) ==
  IF s # <<>> /\ Head(s) \in Whitespace THEN LStrip(Tail(s)) ELSE s

RECURSIVE RStrip(_)
RStrip(s) ==
  IF s # <<>> /\ s[Len(s)] \in Whitespace
  THEN RStrip(SubSeq(s, 1, Len(s) - 1))
  ELSE s

Strip(s) == RStrip(LStrip(s))

\* str.startswith(p)
StartsWith(s, p) == Len(s) >= Len(p) /\ SubSeq(s, 1, Len(p)) = p

\* Pieces of s between separators; every separator token ends a piece, so
\* adjacent separators and separators at either end give empty pieces.
RECURSIVE SplitOn(_, _)
SplitOn(s, seps) ==
  IF \A i \in 1..Len(s) : s[i] \notin seps
  THEN <<s>>
  ELSE LET i == CHOOSE k \in 1..Len(s) :
                  s[k] \in seps /\ \A j \in 1..(k - 1) : s[j] \notin seps
       IN <<SubSeq(s, 1, i - 1)>> \o SplitOn(SubSeq(s, i + 1, Len(s)), seps)

\* re.split(r'[,\n]+', s): a maximal run of separators is ONE separator, so
\* only a run at the very start or end of s leaves an empty piece.
ReSplitRuns(s, seps) ==
  LET raw == SplitOn(s, seps)
      keep == {i \in 1..Len(raw) : raw[i] # <<>> \/ i = 1 \/ i = Len(raw)}
      RECURSIVE pick(_)
      pick(i) == IF i > Len(raw) THEN <<>>
                 ELSE (IF i \in keep THEN <<raw[i]>> ELSE <<>>) \o pick(i + 1)
  IN pick(1)

\* str.splitlines(): lines without their newline; a final newline opens no
\* further line and the empty string has no line.
SplitLines(s) ==
  LET raw == SplitOn(s, {NL})
  IN IF raw[Len(raw)] = <<>> THEN SubSeq(raw, 1, Len(raw) - 1) ELSE raw

\* file.readlines(): each line keeps its newline; text after the last
\* newline is a last line without one.
ReadLines(s) ==
  LET raw == SplitOn(s, {NL})
      n == Len(raw)
  IN [i \in 1..(IF raw[n] = <<>> THEN n - 1 ELSE n) |->
        IF i < n THEN raw[i] \o <<NL>> ELSE raw[i]]

\* file.writelines(lines): the lines written one after another, nothing added.
RECURSIVE WriteLines(_)
WriteLines(ls) == IF ls = <<>> THEN <<>> ELSE Head(ls) \o WriteLines(Tail(ls))

\* The real string of a text: its tokens one after another.
RECURSIVE Flat(_)
Flat(s) == IF s = <<>> THEN "" ELSE Head(s) \o Flat(Tail(s))

\* Python's < on two strings given by their characters: the first differing
\* character decides, and a proper prefix is less.
RECURSIVE CharsLess(_, _)
CharsLess(a, b) ==
  IF a = "" THEN b # ""
  ELSE IF b = "" THEN FALSE
  ELSE IF Head(a) = Head(b) THEN CharsLess(Tail(a), Tail(b))
  ELSE CharRank[Head(a)] < CharRank[Head(b)]

\* Python's < on strings.
StrLess(a, b) == CharsLess(Flat(a), Flat(b))

\* Sorted with the greatest string first.
RECURSIVE SortedDescending(_)
SortedDescending(S) ==
  IF S = {} THEN <<>>
  ELSE LET m == CHOOSE x \in S : \A y \in S \ {x} : StrLess(y, x)
       IN <<m>> \o SortedDescending(S \ {m})

\* sorted(S) of a set of strings.
RECURSIVE Sorted(_)
Sorted(S) ==
  IF S = {} THEN <<>>
  ELSE LET m == CHOOSE x \in S : \A y \in S \ {x} : StrLess(x, y)
       IN <<m>> \o Sorted(S \ {m})

\* sep.join(list)
RECURSIVE Join(_, _)
Join(l, sep) ==
  IF l = <<>> THEN <<>>
  ELSE IF Len(l) = 1 THEN l[1]
  ELSE l[1] \o <<sep>> \o Join(Tail(l), sep)

Range(f) == {f[i] : i \in DOMAIN f}

\* [t.strip() for t in pieces if t.strip()]
RECURSIVE StripNonEmpty(_)
StripNonEmpty(pieces) ==
  IF pieces = <<>> THEN <<>>
  ELSE (IF Strip(Head(pieces)) # <<>> THEN <<Strip(Head(pieces))>> ELSE <<>>)
       \o StripNonEmpty(Tail(pieces))

\* ------------------------------------------------------- pure functions

ValidProtocols == {"http://", "https://", "udp://"}

\* IsValidTracker asking only for some content after the scheme.
IsValidTrackerAnyScheme(tracker) ==
  /\ tracker # <<>>
  /\ Tail(tracker) # <<>>

\* is_valid_tracker: non-empty, starts with an accepted protocol, and the
\* part after the first "://" (the end of the leading scheme token) is
\* non-empty.
IsValidTracker(tracker) ==
  /\ tracker # <<>>
  /\ Head(tracker) \in ValidProtocols
  /\ Tail(tracker) # <<>>

\* fetch_trackers, lines 244-252: the valid trackers of one 200 response.
SourceTrackers(text) ==
  LET lines == SplitLines(Strip(text))
  IN {Strip(lines[i]) : i \in
        {j \in 1..Len(lines) :
           /\ Strip(lines[j]) # <<>>
           /\ Head(Strip(lines[j])) # HASH
           /\ IsValidTracker(Strip(lines[j]))}}

\* The index of the line extract_current_bt_trackers returns from: the first
\* line whose stripped text starts with the directive and has a non-empty
\* value (a directive with an empty value does not end the loop); 0 if none.
IsDirectiveLine(line) == StartsWith(Strip(line), <<DIRECTIVE>>)

DirectiveValue(line) == Strip(Tail(Strip(line)))

ExtractIndex(config_lines) ==
  LET hits == {i \in 1..Len(config_lines) :
                 /\ IsDirectiveLine(config_lines[i])
                 /\ DirectiveValue(config_lines[i]) # <<>>}
  IN IF hits = {} THEN 0 ELSE CHOOSE i \in hits : \A j \in hits : i <= j

\* extract_current_bt_trackers
ExtractCurrentBtTrackers(config_lines) ==
  LET i == ExtractIndex(config_lines)
  IN IF i = 0 THEN <<>>
     ELSE StripNonEmpty(ReSplitRuns(DirectiveValue(config_lines[i]), {COMMA, NL}))

\* Aria2RPC.get_bt_tracker on a successful option query.
ParseOption(tracker_str) ==
  IF tracker_str # <<>>
  THEN StripNonEmpty(SplitOn(tracker_str, {COMMA}))
  ELSE <<>>

\* CombinedSet keeping the fetched trackers only.
CombinedSetFreshOnly(old_set, new_trackers) == Range(new_trackers)

\* combined_set / combined_list / added / removed of both update paths.
CombinedSet(old_set, new_trackers) == old_set \cup Range(new_trackers)

CombinedList(old_set, new_trackers) == Sorted(CombinedSet(old_set, new_trackers))

Added(old_set, new_trackers) == CombinedSet(old_set, new_trackers) \ old_set

Removed(old_set, new_trackers) == old_set \ CombinedSet(old_set, new_trackers)

\* tracker_line
TrackerLine(combined_list) == <<DIRECTIVE>> \o Join(combined_list, COMMA) \o <<NL>>

\* The rewrite loop of update_bt_trackers_config_only: EVERY line whose
\* stripped text starts with the directive becomes tracker_line (the loop has
\* no break); with no such line tracker_line is appended.
NewLines(lines, tracker_line) ==
  LET replaced == [i \in 1..Len(lines) |->
                     IF IsDirectiveLine(lines[i]) THEN tracker_line ELSE lines[i]]
      updated == \E i \in 1..Len(lines) : IsDirectiveLine(lines[i])
  IN IF updated THEN replaced ELSE Append(replaced, tracker_line)

\* The content update_bt_trackers_config_only writes (lines 477-501) over a
\* file of the given content, with the old_set it extracted from it.
WrittenFile(content, old, new) ==
  WriteLines(NewLines(ReadLines(content), TrackerLine(CombinedList(old, new))))

\* The number of characters of a text.
RECURSIVE ByteLen(_)
ByteLen(content) ==
  IF content = <<>> THEN 0 ELSE Len(Head(content)) + ByteLen(Tail(content))

\* What a file opened for writing (and so emptied) holds when the writing
\* of content stops after k characters: the first k characters, wherever
\* that falls in a line or in a token, up to all of it (the writing failed
\* at its end).
RECURSIVE Torn(_, _)
Torn(content, k) ==
  IF content = <<>> \/ k = 0 THEN <<>>
  ELSE IF Len(Head(content)) <= k
       THEN <<Head(content)>> \o Torn(Tail(content), k - Len(Head(content)))
       ELSE <<SubSeq(Head(content), 1, k)>>

TornLengths(content) == 0..ByteLen(content)

TornWrites(content) == {Torn(content, k) : k \in TornLengths(content)}

\* --------------------------------------------------------------- inputs

\* Trackers: two plain ones the sources serve, one with a comma and one with
\* inner whitespace (both pass is_valid_tracker), one only old state holds.
TX == <<"http://", "x">>
TY == <<"udp://", "y">>
TComma == <<"http://", "z", COMMA, "y">>
TSpace == <<"https://", "x", SP, "y">>
TZ == <<"udp://", "z">>

\* Response bodies of a 200 answer: comment, blank and padded lines around
\* two trackers; no valid line at all; the comma and whitespace trackers.
BodyPlain == <<HASH, "x", NL>> \o TX \o <<NL, NL, SP>> \o TY \o <<SP, NL>>
BodyInvalid == <<"ftp://", "x", NL, "http://", NL, HASH>> \o TX \o <<NL>>
BodyOdd == TComma \o <<NL>> \o TSpace

Bodies == {BodyPlain, BodyInvalid, BodyOdd}

\* Ways one GET attempt fails (lines 258-266).
FailKinds == {"timeout", "request_exception", "status_not_200", "exception"}

\* Config files the first run may find.
NoFile == <<"(no file)">>
FileOther == <<"dir=/d", NL>>
FileNoNewline == <<"dir=/d">>
FileOne == <<DIRECTIVE>> \o TX \o <<NL>>
FileDup ==
  <<SP, DIRECTIVE, SP>> \o TX \o <<SP, COMMA, COMMA, NL, "dir=/d", NL, DIRECTIVE>>
  \o TZ \o <<NL>>
FileEmptyFirst == <<DIRECTIVE, NL, DIRECTIVE>> \o TZ \o <<NL>>

\* What an earlier process left when its write stopped early: after the
\* first character of the file, and inside the second tracker of the list.
FileCutInDirective == Torn(FileOne, 1)
FileCutInTracker == Torn(<<DIRECTIVE>> \o TX \o <<COMMA>> \o TZ \o <<NL>>, 22)

InitFiles == {NoFile, FileOther, FileNoNewline, FileOne, FileDup,
              FileEmptyFirst, FileCutInDirective, FileCutInTracker}

\* The service's bt-tracker option before the first run.
InitOptions == {<<>>, TZ}

\* Bounds of the exploration.
MaxRetries == 2
MaxSources == 2

\* The runs started and the faults (torn writes, swallowed interrupts and
\* answers that disagree with what the service did) of one exploration,
\* counted together: two runs without a fault, or one run with one fault.
MaxWork == 2

Modes == {"config", "rpc", "hybrid"}

\* rpc.secret: none (the default) or one.
Secrets == {"", "s"}

\* What a configuration file can hold (Config.load_config, lines 21-64):
\* every mode and switch, a path value or none, no or one secret, one
\* attempt per source and no or one source.  dry_run is not in the file: it
\* is the --dry-run flag.
ConfFiles ==
  [update_mode : Modes,
   rpc_enabled : BOOLEAN,
   fallback_to_config : BOOLEAN,
   backup_enabled : BOOLEAN,
   dry_run : {FALSE},
   conf_path_set : BOOLEAN,
   secret : Secrets,
   max_retries : {1},
   sources : {0, 1}]

\* The command line (parse_arguments): the options main reads at lines
\* 758-800 and --dry-run; for --update-mode and --rpc-secret "" stands for
\* an option not given.  --verbose and --log-file change only the logging.
Args ==
  [aria2_conf : BOOLEAN,
   no_backup : BOOLEAN,
   rpc : BOOLEAN,
   rpc_url : BOOLEAN,
   rpc_secret : Secrets,
   update_mode : Modes \cup {""},
   dry_run : BOOLEAN]

\* main, lines 758-800: the command line overrides the loaded configuration.
\* Each of --rpc, --rpc-url and --rpc-secret enables RPC; --update-mode wins
\* over the rpc mode that --rpc alone selects.
Override(conf, args) ==
  [update_mode |-> IF args.update_mode # "" THEN args.update_mode
                   ELSE IF args.rpc THEN "rpc"
                   ELSE conf.update_mode,
   rpc_enabled |-> conf.rpc_enabled \/ args.rpc \/ args.rpc_url
                   \/ args.rpc_secret # "",
   fallback_to_config |-> conf.fallback_to_config,
   backup_enabled |-> conf.backup_enabled /\ ~args.no_backup,
   dry_run |-> args.dry_run,
   conf_path_set |-> conf.conf_path_set \/ args.aria2_conf,
   secret |-> IF args.rpc_secret # "" THEN args.rpc_secret ELSE conf.secret,
   max_retries |-> conf.max_retries,
   sources |-> conf.sources]

\* The configurations a run can have: a configuration file with a command
\* line applied.
AllConfigs == {Override(conf, args) : conf \in ConfFiles, args \in Args}

\* update_bt_trackers, lines 528-555: the config path runs in config and in
\* hybrid mode, and in rpc mode as the fallback.
RunsConfigPath(c) == c.update_mode # "rpc" \/ c.fallback_to_config

\* The configurations under which an update or a dry run is explored: the
\* switches such a run never reads are left at one value.  A dry run reads
\* only the path, the sources and the retries (lines 699-745): it is
\* explored in config mode and, with RPC enabled, in hybrid mode.  The
\* secret is read only with RPC enabled, fallback_to_config only in rpc
\* mode, rpc.enabled in rpc and hybrid mode only (lines 528-555, 405-442).
\* The path and the backup switch are read by the config path only, and the
\* backup switch only after the path (lines 447-457).  test_rpc_connection
\* reads rpc.enabled in every mode: TestRpc draws from AllConfigs.
Configs ==
  {c \in AllConfigs :
     /\ c.dry_run =>
          /\ c.update_mode # "rpc"
          /\ c.backup_enabled
     /\ c.update_mode = "config" => ~c.rpc_enabled
     /\ (c.dry_run /\ c.update_mode = "hybrid") => c.rpc_enabled
     /\ c.update_mode # "rpc" => c.fallback_to_config
     /\ ~c.rpc_enabled => c.secret = ""
     /\ ~RunsConfigPath(c) => c.conf_path_set
     /\ (~RunsConfigPath(c) \/ ~c.conf_path_set) => c.backup_enabled}

\* Between runs no configuration is loaded.
NoConfig ==
  [update_mode |-> "", rpc_enabled |-> FALSE, fallback_to_config |-> FALSE,
   backup_enabled |-> FALSE, dry_run |-> FALSE, conf_path_set |-> FALSE,
   secret |-> "", max_retries |-> 0, sources |-> 0]

\* The configurations under which fetch_trackers is explored on its own:
\* every number of sources and of attempts within the bounds.
FetchConfigs ==
  [update_mode : {"config"},
   rpc_enabled : {FALSE},
   fallback_to_config : {FALSE},
   backup_enabled : {FALSE},
   dry_run : {TRUE},
   conf_path_set : {TRUE},
   secret : {""},
   max_retries : 1..MaxRetries,
   sources : 0..MaxSources]

\* ---------------------------------------------------------------- state

VARIABLES
  file,          \* content of the config file, or NoFile
  backup,        \* content of <path><backup_suffix>, or NoFile
  option,        \* the service's bt-tracker global option
  cfg,           \* configuration of the current run
  pc,            \* position of the run
  caller,        \* what invoked the path now running
  path,          \* the path now running: "config", "rpc", "dry", "none"
  old_set,       \* old_set of the path now running
  url,           \* fetch_trackers: index of the source being fetched
  attempt,       \* fetch_trackers: attempt index of that source (from 0)
  trackers,      \* fetch_trackers: the set collected so far
  new_trackers,  \* the list fetch_trackers returned to the path
  ret,           \* how each path of this run ended
  success,       \* update_bt_trackers / dry_run_update result seen by main
  exit_code,     \* the process exit status of the last finished run
  runs,          \* runs started
  rpc_log,       \* JSON-RPC requests sent in this run, in order
  fetch_log,     \* per source of the current fetch: attempts, delays, answer
  hist,          \* file, backup, option at the start of the run and of the path
  faults         \* faults so far (see MaxWork)

vars == <<file, backup, option, cfg, pc, caller, path, old_set, url, attempt,
          trackers, new_trackers, ret, success, exit_code, runs, rpc_log,
          fetch_log, hist, faults>>

NoRet == [config |-> "none", rpc |-> "none", dry |-> "none"]

NoFetch == [i \in 1..0 |-> 0]

NoHist == [run_file |-> <<>>, run_backup |-> <<>>, run_option |-> <<>>,
           path_file |-> <<>>, fetches |-> <<>>, paths |-> <<>>,
           copied |-> "none", torn_file |-> -1, torn_backup |-> -1]

\* The installations explored: every initial file with the service's option
\* unset, and the plain file with one directive line also with an option
\* already set.
Init ==
  /\ cfg = NoConfig
  /\ file \in InitFiles
  /\ backup = NoFile
  /\ option \in (IF file = FileOne THEN InitOptions ELSE {<<>>})
  /\ pc = "idle"
  /\ caller = "none"
  /\ path = "none"
  /\ old_set = {}
  /\ url = 1
  /\ attempt = 0
  /\ trackers = {}
  /\ new_trackers = <<>>
  /\ ret = NoRet
  /\ success = "none"
  /\ exit_code = 0
  /\ runs = 0
  /\ rpc_log = <<>>
  /\ fetch_log = NoFetch
  /\ hist = NoHist
  /\ faults = 0

\* -------------------------------------------------------------- helpers

\* A path starts: remember the file it found and log the start.
EnterPath(p, c) ==
  /\ path' = p
  /\ caller' = c
  /\ hist' = [hist EXCEPT !.path_file = file,
                          !.paths = Append(@, <<p, "start">>)]

\* A path ends with r ("true", "false" or "raised").
LeavePath(r) ==
  /\ ret' = [ret EXCEPT ![path] = r]
  /\ hist' = [hist EXCEPT !.paths = Append(@, <<path, "end">>)]

\* The config path returns False after a write that left the first k
\* characters.
LeavePathTorn(k) ==
  /\ ret' = [ret EXCEPT ![path] = "false"]
  /\ hist' = [hist EXCEPT !.paths = Append(@, <<path, "end">>),
                          !.torn_file = k]

\* fetch_trackers is entered (lines 229-234).
StartFetch ==
  /\ url' = 1
  /\ attempt' = 0
  /\ trackers' = {}
  /\ fetch_log' = [i \in 1..cfg.sources |->
                     [attempts |-> 0, delays |-> 0, state |-> "pending",
                      body |-> <<>>, lost |-> {}]]

\* Where each path goes on after its work, by who called it.
AfterConfig == IF caller = "hybrid" THEN "hybrid_after_config" ELSE "config_returned"

AfterRpc == IF caller = "hybrid" THEN "hybrid_finish" ELSE "rpc_returned"

\* ----------------------------------------------------------------- main

\* Main entering the update even when --dry-run is given.
MainIgnoresDryRun ==
  /\ pc \in {"idle", "exited"}
  /\ runs + faults < MaxWork
  /\ cfg' \in Configs
  /\ runs' = runs + 1
  /\ pc' = "update_bt_trackers"
  /\ caller' = "none"
  /\ path' = "none"
  /\ old_set' = {}
  /\ url' = 1
  /\ attempt' = 0
  /\ trackers' = {}
  /\ new_trackers' = <<>>
  /\ ret' = NoRet
  /\ success' = "none"
  /\ rpc_log' = <<>>
  /\ fetch_log' = NoFetch
  /\ exit_code' = 0
  /\ hist' = [run_file |-> file, run_backup |-> backup, run_option |-> option,
              path_file |-> file, fetches |-> <<>>, paths |-> <<>>,
              copied |-> "none", torn_file |-> -1, torn_backup |-> -1]
  /\ UNCHANGED <<file, backup, option>>
  /\ UNCHANGED faults


\* main, lines 748-835: at every run the configuration file is loaded and
\* the command line applied to it (lines 758-800), then the dry run or the
\* update is entered.
Main ==
  /\ pc \in {"idle", "exited"}
  /\ runs + faults < MaxWork
  /\ cfg' \in Configs
  /\ runs' = runs + 1
  /\ pc' = IF cfg'.dry_run THEN "dry_run_update" ELSE "update_bt_trackers"
  /\ caller' = "none"
  /\ path' = "none"
  /\ old_set' = {}
  /\ url' = 1
  /\ attempt' = 0
  /\ trackers' = {}
  /\ new_trackers' = <<>>
  /\ ret' = NoRet
  /\ success' = "none"
  /\ rpc_log' = <<>>
  /\ fetch_log' = NoFetch
  /\ exit_code' = 0
  /\ hist' = [run_file |-> file, run_backup |-> backup, run_option |-> option,
              path_file |-> file, fetches |-> <<>>, paths |-> <<>>,
              copied |-> "none", torn_file |-> -1, torn_backup |-> -1]
  /\ UNCHANGED <<file, backup, option>>
  /\ UNCHANGED faults

\* UpdateBtTrackers giving up in rpc mode with RPC disabled whatever
\* fallback_to_config says.
UpdateBtTrackersDisabledFails ==
  /\ pc = "update_bt_trackers"
  /\ IF cfg.update_mode = "rpc"
     THEN IF cfg.rpc_enabled
          THEN /\ EnterPath("rpc", "rpc_mode")
               /\ pc' = "rpc_start"
               /\ UNCHANGED success
          ELSE /\ success' = "false"
               /\ pc' = "main_end"
               /\ UNCHANGED <<path, caller, hist>>
     ELSE IF cfg.update_mode = "hybrid"
          THEN /\ EnterPath("config", "hybrid")
               /\ pc' = "config_start"
               /\ UNCHANGED success
          ELSE /\ EnterPath("config", "config_mode")
               /\ pc' = "config_start"
               /\ UNCHANGED success
  /\ UNCHANGED <<file, backup, option, cfg, old_set, url, attempt, trackers,
                 new_trackers, ret, exit_code, runs, rpc_log, fetch_log>>
  /\ UNCHANGED faults

\* update_bt_trackers, lines 528-555: the mode picks the first path.
UpdateBtTrackers ==
  /\ pc = "update_bt_trackers"
  /\ IF cfg.update_mode = "rpc"
     THEN IF cfg.rpc_enabled
          THEN /\ EnterPath("rpc", "rpc_mode")
               /\ pc' = "rpc_start"
               /\ UNCHANGED success
          ELSE IF cfg.fallback_to_config
               THEN /\ EnterPath("config", "fallback")
                    /\ pc' = "config_start"
                    /\ UNCHANGED success
               ELSE /\ success' = "false"
                    /\ pc' = "main_end"
                    /\ UNCHANGED <<path, caller, hist>>
     ELSE IF cfg.update_mode = "hybrid"
          THEN /\ EnterPath("config", "hybrid")
               /\ pc' = "config_start"
               /\ UNCHANGED success
          ELSE /\ EnterPath("config", "config_mode")
               /\ pc' = "config_start"
               /\ UNCHANGED success
  /\ UNCHANGED <<file, backup, option, cfg, old_set, url, attempt, trackers,
                 new_trackers, ret, exit_code, runs, rpc_log, fetch_log>>
  /\ UNCHANGED faults

\* ---------------------------------------------------------------- fetch

\* One GET of the source loop that answers 200 (lines 241-257): its valid
\* lines join the set and the source is done.  A KeyboardInterrupt that
\* arrives inside the try of is_valid_tracker is caught by its bare except
\* (lines 290-296): the tracker being checked is taken for invalid and the
\* fetch goes on; lost holds the trackers rejected that way.
FetchAttemptOk ==
  /\ pc = "fetch"
  /\ url <= cfg.sources
  /\ attempt < cfg.max_retries
  /\ \E body \in Bodies :
       \E lost \in SUBSET SourceTrackers(body) :
         /\ runs + faults + Cardinality(lost) <= MaxWork
         /\ faults' = faults + Cardinality(lost)
         /\ trackers' = trackers \cup (SourceTrackers(body) \ lost)
         /\ fetch_log' = [fetch_log EXCEPT ![url] =
                            [attempts |-> @.attempts + 1, delays |-> @.delays,
                             state |-> "ok", body |-> body, lost |-> lost]]
  /\ url' = url + 1
  /\ attempt' = 0
  /\ UNCHANGED <<file, backup, option, cfg, pc, caller, path, old_set,
                 new_trackers, ret, success, exit_code, runs, rpc_log, hist>>

\* FetchAttemptFails with the delay taken after the last attempt too.
FetchAttemptFailsAlwaysSleeps ==
  /\ pc = "fetch"
  /\ url <= cfg.sources
  /\ attempt < cfg.max_retries
  /\ \E kind \in FailKinds :
       IF attempt < cfg.max_retries - 1
       THEN /\ fetch_log' = [fetch_log EXCEPT ![url] =
                               [attempts |-> @.attempts + 1,
                                delays |-> @.delays + 1,
                                state |-> "pending", body |-> <<>>, lost |-> {}]]
            /\ attempt' = attempt + 1
            /\ url' = url
       ELSE /\ fetch_log' = [fetch_log EXCEPT ![url] =
                               [attempts |-> @.attempts + 1,
                                delays |-> @.delays + 1,
                                state |-> "failed", body |-> <<>>, lost |-> {}]]
            /\ attempt' = 0
            /\ url' = url + 1
  /\ UNCHANGED <<file, backup, option, cfg, pc, caller, path, old_set,
                 trackers, new_trackers, ret, success, exit_code, runs,
                 rpc_log, hist>>
  /\ UNCHANGED faults


\* One GET that fails (lines 258-272): a delay and the next attempt, except
\* after the last attempt, where the source is skipped.
FetchAttemptFails ==
  /\ pc = "fetch"
  /\ url <= cfg.sources
  /\ attempt < cfg.max_retries
  /\ \E kind \in FailKinds :
       IF attempt < cfg.max_retries - 1
       THEN /\ fetch_log' = [fetch_log EXCEPT ![url] =
                               [attempts |-> @.attempts + 1,
                                delays |-> @.delays + 1,
                                state |-> "pending", body |-> <<>>, lost |-> {}]]
            /\ attempt' = attempt + 1
            /\ url' = url
       ELSE /\ fetch_log' = [fetch_log EXCEPT ![url] =
                               [attempts |-> @.attempts + 1,
                                delays |-> @.delays,
                                state |-> "failed", body |-> <<>>, lost |-> {}]]
            /\ attempt' = 0
            /\ url' = url + 1
  /\ UNCHANGED <<file, backup, option, cfg, pc, caller, path, old_set,
                 trackers, new_trackers, ret, success, exit_code, runs,
                 rpc_log, hist>>
  /\ UNCHANGED faults

\* The source loop is over (lines 274-275): the sorted list goes back to the
\* path that asked for it.
FetchReturn ==
  /\ pc = "fetch"
  /\ url > cfg.sources
  /\ new_trackers' = Sorted(trackers)
  /\ hist' = [hist EXCEPT !.fetches = Append(@, path)]
  /\ pc' = IF path = "config" THEN "config_write"
           ELSE IF path = "rpc" THEN "rpc_update"
           ELSE "dry_diff"
  /\ url' = 1
  /\ attempt' = 0
  /\ trackers' = {}
  /\ fetch_log' = NoFetch
  /\ UNCHANGED <<file, backup, option, cfg, caller, path, old_set, ret,
                 success, exit_code, runs, rpc_log>>
  /\ UNCHANGED faults

\* ---------------------------------------------------------- config path

\* ValidateConfigFile with the backup copy taken before the access checks.
ValidateConfigFileAfterCopy ==
  /\ pc = "config_start"
  /\ \/ /\ ~cfg.conf_path_set
        /\ LeavePath("raised")
        /\ pc' = AfterConfig
        /\ UNCHANGED backup
     \/ /\ cfg.conf_path_set
        /\ file = NoFile
        /\ LeavePath("false")
        /\ pc' = AfterConfig
        /\ UNCHANGED backup
     \/ /\ cfg.conf_path_set
        /\ file # NoFile
        /\ \E access \in {"no_read", "no_write"} :
             /\ backup' = IF cfg.backup_enabled THEN file ELSE backup
             /\ LeavePath("false")
             /\ pc' = AfterConfig
     \/ /\ cfg.conf_path_set
        /\ file # NoFile
        /\ pc' = "config_backup"
        /\ UNCHANGED <<ret, hist, backup>>
  /\ UNCHANGED <<file, option, cfg, caller, path, old_set, url,
                 attempt, trackers, new_trackers, success, exit_code, runs,
                 rpc_log, fetch_log>>
  /\ UNCHANGED faults

\* update_bt_trackers_config_only, lines 445-453, with validate_config_file:
\* a missing path value raises in os.path.exists, outside any try; a missing,
\* unreadable or unwritable file returns False.
ValidateConfigFile ==
  /\ pc = "config_start"
  /\ \/ /\ ~cfg.conf_path_set
        /\ LeavePath("raised")
        /\ pc' = AfterConfig
     \/ /\ cfg.conf_path_set
        /\ file = NoFile
        /\ LeavePath("false")
        /\ pc' = AfterConfig
     \/ /\ cfg.conf_path_set
        /\ file # NoFile
        /\ \E access \in {"no_read", "no_write"} :
             /\ LeavePath("false")
             /\ pc' = AfterConfig
     \/ /\ cfg.conf_path_set
        /\ file # NoFile
        /\ pc' = "config_backup"
        /\ UNCHANGED <<ret, hist>>
  /\ UNCHANGED <<file, backup, option, cfg, caller, path, old_set, url,
                 attempt, trackers, new_trackers, success, exit_code, runs,
                 rpc_log, fetch_log>>
  /\ UNCHANGED faults

\* BackupConfigFile keeping a backup file that already exists.
BackupConfigFileKeepsExisting ==
  /\ pc = "config_backup"
  /\ IF cfg.backup_enabled
     THEN \/ /\ backup' = IF backup = NoFile THEN file ELSE backup
             /\ hist' = [hist EXCEPT !.copied = "ok"]
             /\ UNCHANGED faults
          \/ /\ backup' = backup
             /\ hist' = [hist EXCEPT !.copied = "failed"]
             /\ UNCHANGED faults
          \/ /\ runs + faults < MaxWork
             /\ faults' = faults + 1
             /\ \E k \in TornLengths(file) :
                  /\ backup' = Torn(file, k)
                  /\ hist' = [hist EXCEPT !.copied = "failed",
                                          !.torn_backup = k]
     ELSE UNCHANGED <<backup, hist, faults>>
  /\ pc' = "config_read"
  /\ UNCHANGED <<file, option, cfg, caller, path, old_set, url, attempt,
                 trackers, new_trackers, ret, success, exit_code, runs,
                 rpc_log, fetch_log>>

\* BackupConfigFile ending the config path with False when the copy fails.
BackupConfigFileAborts ==
  /\ pc = "config_backup"
  /\ IF cfg.backup_enabled
     THEN \/ /\ backup' = file
             /\ hist' = [hist EXCEPT !.copied = "ok"]
             /\ pc' = "config_read"
             /\ UNCHANGED <<faults, ret>>
          \/ /\ backup' = backup
             /\ ret' = [ret EXCEPT ![path] = "false"]
             /\ hist' = [hist EXCEPT !.copied = "failed",
                                     !.paths = Append(@, <<path, "end">>)]
             /\ pc' = AfterConfig
             /\ UNCHANGED faults
          \/ /\ runs + faults < MaxWork
             /\ faults' = faults + 1
             /\ \E k \in TornLengths(file) :
                  /\ backup' = Torn(file, k)
                  /\ hist' = [hist EXCEPT !.copied = "failed",
                                          !.torn_backup = k,
                                          !.paths = Append(@, <<path, "end">>)]
             /\ ret' = [ret EXCEPT ![path] = "false"]
             /\ pc' = AfterConfig
     ELSE /\ pc' = "config_read"
          /\ UNCHANGED <<backup, hist, faults, ret>>
  /\ UNCHANGED <<file, option, cfg, caller, path, old_set, url, attempt,
                 trackers, new_trackers, success, exit_code, runs,
                 rpc_log, fetch_log>>

\* backup_config_file, lines 312-329, called at lines 455-457: the copy may
\* fail, and the update goes on either way.  shutil.copy2 opens the backup
\* for writing, copies the content and then the metadata: a copy that fails
\* leaves the backup as it was (it could not be opened), with the text up
\* to where the writing failed, wherever in a line that is, or complete (the
\* metadata failed).
BackupConfigFile ==
  /\ pc = "config_backup"
  /\ IF cfg.backup_enabled
     THEN \/ /\ backup' = file
             /\ hist' = [hist EXCEPT !.copied = "ok"]
             /\ UNCHANGED faults
          \/ /\ backup' = backup
             /\ hist' = [hist EXCEPT !.copied = "failed"]
             /\ UNCHANGED faults
          \/ /\ runs + faults < MaxWork
             /\ faults' = faults + 1
             /\ \E k \in TornLengths(file) :
                  /\ backup' = Torn(file, k)
                  /\ hist' = [hist EXCEPT !.copied = "failed",
                                          !.torn_backup = k]
     ELSE UNCHANGED <<backup, hist, faults>>
  /\ pc' = "config_read"
  /\ UNCHANGED <<file, option, cfg, caller, path, old_set, url, attempt,
                 trackers, new_trackers, ret, success, exit_code, runs,
                 rpc_log, fetch_log>>

\* Lines 459-472: the file is read and old_set extracted, then the fetch
\* starts; a failing read is caught at line 523.
ReadConfig ==
  /\ pc = "config_read"
  /\ \/ /\ old_set' = Range(ExtractCurrentBtTrackers(ReadLines(file)))
        /\ StartFetch
        /\ pc' = "fetch"
        /\ UNCHANGED <<ret, hist>>
     \/ /\ LeavePath("false")
        /\ pc' = AfterConfig
        /\ UNCHANGED <<old_set, url, attempt, trackers, fetch_log>>
  /\ UNCHANGED <<file, backup, option, cfg, caller, path, new_trackers,
                 success, exit_code, runs, rpc_log>>
  /\ UNCHANGED faults

\* WriteConfig without the check of line 473 for an empty fetch.
WriteConfigUnchecked ==
  /\ pc = "config_write"
  /\ \/ /\ file' = WrittenFile(file, old_set, new_trackers)
        /\ LeavePath("true")
        /\ UNCHANGED faults
     \/ /\ LeavePath("false")
        /\ UNCHANGED <<file, faults>>
     \/ /\ runs + faults < MaxWork
        /\ faults' = faults + 1
        /\ \E k \in TornLengths(WrittenFile(file, old_set, new_trackers)) :
             /\ file' = Torn(WrittenFile(file, old_set, new_trackers), k)
             /\ LeavePathTorn(k)
  /\ pc' = AfterConfig
  /\ UNCHANGED <<backup, option, cfg, caller, path, old_set, url, attempt,
                 trackers, new_trackers, success, exit_code, runs, rpc_log,
                 fetch_log>>

\* Lines 473-525: nothing fetched returns False; otherwise the merged line
\* is written over the file.  The lines are those ReadConfig read: nothing
\* writes the file in between.  Lines 500-501 open the file for writing,
\* which empties it, and then write the lines: a failure there is caught at
\* line 523 and returns False with the file as it was (it could not be
\* opened), or holding the text up to where the writing failed, wherever in
\* a line that is.
WriteConfig ==
  /\ pc = "config_write"
  /\ IF new_trackers = <<>>
     THEN /\ LeavePath("false")
          /\ UNCHANGED <<file, faults>>
     ELSE \/ /\ file' = WrittenFile(file, old_set, new_trackers)
             /\ LeavePath("true")
             /\ UNCHANGED faults
          \/ /\ LeavePath("false")
             /\ UNCHANGED <<file, faults>>
          \/ /\ runs + faults < MaxWork
             /\ faults' = faults + 1
             /\ \E k \in TornLengths(WrittenFile(file, old_set, new_trackers)) :
                  /\ file' = Torn(WrittenFile(file, old_set, new_trackers), k)
                  /\ LeavePathTorn(k)
  /\ pc' = AfterConfig
  /\ UNCHANGED <<backup, option, cfg, caller, path, old_set, url, attempt,
                 trackers, new_trackers, success, exit_code, runs, rpc_log,
                 fetch_log>>

\* ------------------------------------------------------------- rpc path

\* How one POST of Aria2RPC._make_request can end (lines 109-136): the
\* result comes back, or the transport fails (timeout, connection error or
\* another RequestException), the status is not 200, the answer has an
\* 'error' member, or the answer is not JSON; every failure raises.
RpcFailKinds == {"transport", "status_not_200", "error_member", "not_json"}

RpcOutcomes == {"ok"} \cup RpcFailKinds

\* One element of a request's params list.
TokenParam(secret) == [kind |-> "token", value |-> <<"token:", secret>>]

OptionsParam(tracker_str) == [kind |-> "options", value |-> tracker_str]

\* BuildParams putting the token behind the call's arguments.
BuildParamsAppends(secret, args) ==
  IF secret # "" THEN args \o <<TokenParam(secret)>> ELSE args

\* Aria2RPC._build_request, lines 87-103: with a secret the token goes in
\* front of the call's arguments (alone when the call has none), without one
\* the arguments are the params.
BuildParams(secret, args) ==
  IF secret # "" THEN <<TokenParam(secret)>> \o args ELSE args

\* The request _make_request posts and whether its result came back.
\* uuid.uuid4() gives each request an id no earlier request of the client
\* had: the id is the request's number.
Request(method, args, outcome) ==
  [method |-> method,
   id |-> Len(rpc_log) + 1,
   params |-> BuildParams(cfg.secret, args),
   ok |-> outcome = "ok"]

\* RpcTestConnection going on whatever the version query gave.
RpcTestConnectionUnchecked ==
  /\ pc = "rpc_start"
  /\ IF ~cfg.rpc_enabled
     THEN /\ LeavePath("false")
          /\ pc' = AfterRpc
          /\ UNCHANGED rpc_log
     ELSE \E outcome \in RpcOutcomes :
            /\ rpc_log' = Append(rpc_log,
                                 Request("aria2.getVersion", <<>>, outcome))
            /\ pc' = "rpc_get"
            /\ UNCHANGED <<ret, hist>>
  /\ UNCHANGED <<file, backup, option, cfg, caller, path, old_set, url,
                 attempt, trackers, new_trackers, success, exit_code, runs,
                 fetch_log>>
  /\ UNCHANGED faults

\* update_bt_trackers_via_rpc, lines 349-365, with test_connection: RPC
\* disabled returns False at once; else one aria2.getVersion request, whose
\* failure returns False.
RpcTestConnection ==
  /\ pc = "rpc_start"
  /\ IF ~cfg.rpc_enabled
     THEN /\ LeavePath("false")
          /\ pc' = AfterRpc
          /\ UNCHANGED rpc_log
     ELSE \E outcome \in RpcOutcomes :
            /\ rpc_log' = Append(rpc_log,
                                 Request("aria2.getVersion", <<>>, outcome))
            /\ IF outcome = "ok"
               THEN /\ pc' = "rpc_get"
                    /\ UNCHANGED <<ret, hist>>
               ELSE /\ LeavePath("false")
                    /\ pc' = AfterRpc
  /\ UNCHANGED <<file, backup, option, cfg, caller, path, old_set, url,
                 attempt, trackers, new_trackers, success, exit_code, runs,
                 fetch_log>>
  /\ UNCHANGED faults

\* Lines 367-373 with Aria2RPC.get_bt_tracker, lines 160-170: one
\* aria2.getGlobalOption request; when it fails get_bt_tracker catches the
\* error and returns [], and the path goes on with an empty old_set.
RpcGetBtTracker ==
  /\ pc = "rpc_get"
  /\ \E outcome \in RpcOutcomes :
       /\ rpc_log' = Append(rpc_log,
                            Request("aria2.getGlobalOption", <<>>, outcome))
       /\ old_set' = IF outcome = "ok" THEN Range(ParseOption(option)) ELSE {}
  /\ StartFetch
  /\ pc' = "fetch"
  /\ UNCHANGED <<file, backup, option, cfg, caller, path, new_trackers, ret,
                 success, exit_code, runs, hist>>
  /\ UNCHANGED faults

\* The service and its answer to a request to change the option to
\* tracker_str: the service makes the change exactly when its answer is a
\* result, or (a fault) the two disagree.  The code reads nothing of the
\* service's state out of the answer: a request whose answer is lost (a
\* timeout, a broken connection) may have been carried out, and a result is
\* taken for success without being looked at (line 184).
ChangeRequest(tracker_str, outcome) ==
  \/ /\ option' = IF outcome = "ok" THEN tracker_str ELSE option
     /\ UNCHANGED faults
  \/ /\ runs + faults < MaxWork
     /\ faults' = faults + 1
     /\ option' = IF outcome = "ok" THEN option ELSE tracker_str

\* UpdateBtTracker taking an answer with an 'error' member for a result.
UpdateBtTrackerIgnoresError(combined_list, outcome) ==
  LET tracker_str == Join(combined_list, COMMA)
  IN /\ rpc_log' = Append(rpc_log,
                          Request("aria2.changeGlobalOption",
                                  <<OptionsParam(tracker_str)>>, outcome))
     /\ ChangeRequest(tracker_str, outcome)
     /\ IF outcome \in {"ok", "error_member"}
        THEN LeavePath("true")
        ELSE LeavePath("false")

\* Aria2RPC.update_bt_tracker, lines 172-191, on a non-empty list, with the
\* return of update_bt_trackers_via_rpc that follows it (lines 385-399): one
\* aria2.changeGlobalOption request carries the comma-joined list; its
\* result gives True, every failure of _make_request is caught and gives
\* False.  Either way the service may or may not have made the change.
UpdateBtTracker(combined_list, outcome) ==
  LET tracker_str == Join(combined_list, COMMA)
  IN /\ rpc_log' = Append(rpc_log,
                          Request("aria2.changeGlobalOption",
                                  <<OptionsParam(tracker_str)>>, outcome))
     /\ ChangeRequest(tracker_str, outcome)
     /\ IF outcome = "ok"
        THEN LeavePath("true")
        ELSE LeavePath("false")

\* Lines 374-402: nothing fetched returns False; otherwise the merged list
\* is pushed by update_bt_tracker.
RpcUpdate ==
  /\ pc = "rpc_update"
  /\ IF new_trackers = <<>>
     THEN /\ LeavePath("false")
          /\ UNCHANGED <<option, rpc_log, faults>>
     ELSE \E outcome \in RpcOutcomes :
            UpdateBtTracker(CombinedList(old_set, new_trackers), outcome)
  /\ pc' = AfterRpc
  /\ UNCHANGED <<file, backup, cfg, caller, path, old_set, url, attempt,
                 trackers, new_trackers, success, exit_code, runs, fetch_log>>

\* --------------------------------------------------------- orchestration

\* update_bt_trackers, lines 540, 546 and 555: the config path's result (or
\* its exception) is the result of the update.
ConfigReturned ==
  /\ pc = "config_returned"
  /\ success' = ret.config
  /\ pc' = "main_end"
  /\ UNCHANGED <<file, backup, option, cfg, caller, path, old_set, url,
                 attempt, trackers, new_trackers, ret, exit_code, runs,
                 rpc_log, fetch_log, hist>>
  /\ UNCHANGED faults

\* RpcReturned falling back whatever fallback_to_config says.
RpcReturnedIgnoresFlag ==
  /\ pc = "rpc_returned"
  /\ IF ret.rpc # "true"
     THEN /\ EnterPath("config", "fallback")
          /\ pc' = "config_start"
          /\ UNCHANGED success
     ELSE /\ success' = ret.rpc
          /\ pc' = "main_end"
          /\ UNCHANGED <<path, caller, hist>>
  /\ UNCHANGED <<file, backup, option, cfg, old_set, url, attempt, trackers,
                 new_trackers, ret, exit_code, runs, rpc_log, fetch_log>>
  /\ UNCHANGED faults


\* update_bt_trackers, lines 537-541: a failed RPC path falls back to the
\* config path when fallback_to_config is set.
RpcReturned ==
  /\ pc = "rpc_returned"
  /\ IF ret.rpc # "true" /\ cfg.fallback_to_config
     THEN /\ EnterPath("config", "fallback")
          /\ pc' = "config_start"
          /\ UNCHANGED success
     ELSE /\ success' = ret.rpc
          /\ pc' = "main_end"
          /\ UNCHANGED <<path, caller, hist>>
  /\ UNCHANGED <<file, backup, option, cfg, old_set, url, attempt, trackers,
                 new_trackers, ret, exit_code, runs, rpc_log, fetch_log>>
  /\ UNCHANGED faults

\* update_bt_trackers_hybrid, lines 413-434: whatever the config path did
\* (an exception is caught at line 419), the RPC path runs if RPC is enabled.
HybridAfterConfig ==
  /\ pc = "hybrid_after_config"
  /\ IF cfg.rpc_enabled
     THEN /\ EnterPath("rpc", "hybrid")
          /\ pc' = "rpc_start"
     ELSE /\ pc' = "hybrid_finish"
          /\ UNCHANGED <<path, caller, hist>>
  /\ UNCHANGED <<file, backup, option, cfg, old_set, url, attempt, trackers,
                 new_trackers, ret, success, exit_code, runs, rpc_log,
                 fetch_log>>
  /\ UNCHANGED faults

\* HybridFinish asking for both paths to succeed.
HybridFinishNeedsBoth ==
  /\ pc = "hybrid_finish"
  /\ success' = IF ret.config = "true" /\ ret.rpc = "true" THEN "true" ELSE "false"
  /\ pc' = "main_end"
  /\ UNCHANGED <<file, backup, option, cfg, caller, path, old_set, url,
                 attempt, trackers, new_trackers, ret, exit_code, runs,
                 rpc_log, fetch_log, hist>>
  /\ UNCHANGED faults


\* HybridFinish reporting the RPC path's result alone.
HybridFinishReportsRpc ==
  /\ pc = "hybrid_finish"
  /\ success' = IF ret.rpc = "true" THEN "true" ELSE "false"
  /\ pc' = "main_end"
  /\ UNCHANGED <<file, backup, option, cfg, caller, path, old_set, url,
                 attempt, trackers, new_trackers, ret, exit_code, runs,
                 rpc_log, fetch_log, hist>>
  /\ UNCHANGED faults

\* update_bt_trackers_hybrid, lines 436-442.
HybridFinish ==
  /\ pc = "hybrid_finish"
  /\ success' = IF ret.config = "true" \/ ret.rpc = "true" THEN "true" ELSE "false"
  /\ pc' = "main_end"
  /\ UNCHANGED <<file, backup, option, cfg, caller, path, old_set, url,
                 attempt, trackers, new_trackers, ret, exit_code, runs,
                 rpc_log, fetch_log, hist>>
  /\ UNCHANGED faults

\* -------------------------------------------------------------- dry run

\* dry_run_update, lines 699-722: a missing path value raises in
\* os.path.exists (outside the try), a missing file or a failing read
\* returns False; otherwise old_set is extracted and the fetch starts.
DryRunUpdate ==
  /\ pc = "dry_run_update"
  /\ path' = "dry"
  /\ caller' = "main"
  /\ \/ /\ ~cfg.conf_path_set
        /\ success' = "raised"
        /\ pc' = "main_end"
        /\ UNCHANGED <<old_set, url, attempt, trackers, fetch_log>>
     \/ /\ cfg.conf_path_set
        /\ success' = "false"
        /\ pc' = "main_end"
        /\ UNCHANGED <<old_set, url, attempt, trackers, fetch_log>>
     \/ /\ cfg.conf_path_set
        /\ file # NoFile
        /\ old_set' = Range(ExtractCurrentBtTrackers(ReadLines(file)))
        /\ StartFetch
        /\ pc' = "fetch"
        /\ UNCHANGED success
  /\ UNCHANGED <<file, backup, option, cfg, new_trackers, ret, exit_code,
                 runs, rpc_log, hist>>
  /\ UNCHANGED faults

\* dry_run_update, lines 723-745: the diff is computed and logged, nothing
\* is written.
DryDiff ==
  /\ pc = "dry_diff"
  /\ success' = IF new_trackers = <<>> THEN "false" ELSE "true"
  /\ pc' = "main_end"
  /\ UNCHANGED <<file, backup, option, cfg, caller, path, old_set, url,
                 attempt, trackers, new_trackers, ret, exit_code, runs,
                 rpc_log, fetch_log, hist>>
  /\ UNCHANGED faults

\* main, lines 837-851: exit status 0 on success, 1 on failure or on an
\* exception that reached main; the finally block is still to run.
MainEnd ==
  /\ pc = "main_end"
  /\ exit_code' = IF success = "true" THEN 0 ELSE 1
  /\ pc' = "finally"
  /\ caller' = "none"
  /\ path' = "none"
  /\ old_set' = {}
  /\ new_trackers' = <<>>
  /\ ret' = NoRet
  /\ rpc_log' = <<>>
  /\ hist' = NoHist
  /\ cfg' = NoConfig
  /\ UNCHANGED <<file, backup, option, url, attempt, trackers, success,
                 runs, fetch_log>>
  /\ UNCHANGED faults

\* A finished or abandoned run: everything local to the run is gone, and
\* the finally block of main is still to run.
EndOfRun ==
  /\ pc' = "finally"
  /\ cfg' = NoConfig
  /\ caller' = "none"
  /\ path' = "none"
  /\ old_set' = {}
  /\ url' = 1
  /\ attempt' = 0
  /\ trackers' = {}
  /\ new_trackers' = <<>>
  /\ ret' = NoRet
  /\ rpc_log' = <<>>
  /\ fetch_log' = NoFetch
  /\ hist' = NoHist

\* main, lines 852-853: the finally block logs the end of the run, and the
\* process ends with the status main left.
Finally ==
  /\ pc = "finally"
  /\ pc' = "exited"
  /\ UNCHANGED <<file, backup, option, cfg, caller, path, old_set, url,
                 attempt, trackers, new_trackers, ret, success, exit_code,
                 runs, rpc_log, fetch_log, hist>>
  /\ UNCHANGED faults

\* A KeyboardInterrupt.  Raised in the body of main's try (lines 751-844) it
\* is caught at lines 846-848, logged, and the process exits with status 0.
\* The except clauses on the way catch Exception and let it through, all but
\* the bare except of is_valid_tracker (see FetchAttemptOk).  An interrupt
\* that arrives while the file is being written (lines 500-501) or the
\* backup copied (line 324) leaves it as it was or with the text up to where
\* the writing stopped; one that arrives while the change request is out
\* (line 184) leaves the service with the change made or not.  Raised in an
\* except clause or in the finally block (lines 846-853), or as main starts
\* and before its try is entered (line 750), it is caught by nothing: the
\* interpreter ends the process with status 130, and a process interrupted
\* as it starts has read no argument and done nothing.
Interrupt ==
  \/ /\ pc \notin {"idle", "finally", "exited"}
     /\ \/ UNCHANGED <<file, backup, option, faults>>
        \/ /\ pc = "rpc_update"
           /\ new_trackers # <<>>
           /\ runs + faults < MaxWork
           /\ option' = Join(CombinedList(old_set, new_trackers), COMMA)
           /\ faults' = faults + 1
           /\ UNCHANGED <<file, backup>>
        \/ /\ pc = "config_write"
           /\ new_trackers # <<>>
           /\ runs + faults < MaxWork
           /\ file' \in TornWrites(WrittenFile(file, old_set, new_trackers))
           /\ faults' = faults + 1
           /\ UNCHANGED <<backup, option>>
        \/ /\ pc = "config_backup"
           /\ cfg.backup_enabled
           /\ runs + faults < MaxWork
           /\ backup' \in TornWrites(file)
           /\ faults' = faults + 1
           /\ UNCHANGED <<file, option>>
     /\ success' = "interrupted"
     /\ exit_code' = 0
     /\ EndOfRun
     /\ UNCHANGED runs
  \/ /\ pc = "finally"
     /\ success' = "interrupted"
     /\ exit_code' = 130
     /\ pc' = "exited"
     /\ UNCHANGED <<file, backup, option, cfg, caller, path, old_set, url,
                    attempt, trackers, new_trackers, ret, runs, rpc_log,
                    fetch_log, hist, faults>>
  \/ /\ pc \in {"idle", "exited"}
     /\ runs + faults < MaxWork
     /\ runs' = runs + 1
     /\ success' = "interrupted"
     /\ exit_code' = 130
     /\ pc' = "exited"
     /\ UNCHANGED <<file, backup, option, cfg, caller, path, old_set, url,
                    attempt, trackers, new_trackers, ret, rpc_log, fetch_log,
                    hist, faults>>

\* main with --list-sources, lines 816-818: the sources are printed and main
\* returns, which ends the process with status 0 after the finally block.
ListSources ==
  /\ pc \in {"idle", "exited"}
  /\ runs + faults < MaxWork
  /\ runs' = runs + 1
  /\ success' = "listed"
  /\ exit_code' = 0
  /\ EndOfRun
  /\ UNCHANGED <<file, backup, option>>
  /\ UNCHANGED faults

\* main with --test-rpc, lines 820-822 and test_rpc_connection (lines
\* 659-686), under the configuration of this run: with RPC not enabled the
\* test fails at once, whatever the update mode; else the service is
\* queried and nothing is changed.  main returns whatever the test gave,
\* which ends the process with status 0.
TestRpc ==
  /\ pc \in {"idle", "exited"}
  /\ runs + faults < MaxWork
  /\ runs' = runs + 1
  /\ \E c \in AllConfigs, connected \in BOOLEAN :
       success' = IF c.rpc_enabled /\ connected THEN "tested" ELSE "test_failed"
  /\ exit_code' = 0
  /\ EndOfRun
  /\ UNCHANGED <<file, backup, option>>
  /\ UNCHANGED faults

Next ==
  \/ Main
  \/ ListSources
  \/ TestRpc
  \/ Interrupt
  \/ UpdateBtTrackers
  \/ FetchAttemptOk
  \/ FetchAttemptFails
  \/ FetchReturn
  \/ ValidateConfigFile
  \/ BackupConfigFile
  \/ ReadConfig
  \/ WriteConfig
  \/ RpcTestConnection
  \/ RpcGetBtTracker
  \/ RpcUpdate
  \/ ConfigReturned
  \/ RpcReturned
  \/ HybridAfterConfig
  \/ HybridFinish
  \/ DryRunUpdate
  \/ DryDiff
  \/ MainEnd
  \/ Finally

Spec == Init /\ [][Next]_vars

\* fetch_trackers on its own, entered through one dry run.
InitFetch ==
  /\ file = FileOne
  /\ backup = NoFile
  /\ option = <<>>
  /\ cfg \in FetchConfigs
  /\ pc = "dry_run_update"
  /\ caller = "none"
  /\ path = "none"
  /\ old_set = {}
  /\ url = 1
  /\ attempt = 0
  /\ trackers = {}
  /\ new_trackers = <<>>
  /\ ret = NoRet
  /\ success = "none"
  /\ exit_code = 0
  /\ runs = 1
  /\ rpc_log = <<>>
  /\ fetch_log = NoFetch
  /\ hist = [NoHist EXCEPT !.run_file = file, !.run_backup = backup,
                           !.path_file = file]
  /\ faults = 0

NextFetch ==
  \/ DryRunUpdate
  \/ FetchAttemptOk
  \/ FetchAttemptFails
  \/ FetchReturn
  \/ DryDiff
  \/ MainEnd
  \/ Finally

SpecFetch == InitFetch /\ [][NextFetch]_vars

\* The configurations under which the RPC client is explored on its own:
\* rpc mode without fallback, with and without a secret.
RpcConfigs ==
  [update_mode : {"rpc"},
   rpc_enabled : {TRUE},
   fallback_to_config : {FALSE},
   backup_enabled : {FALSE},
   dry_run : {FALSE},
   conf_path_set : {TRUE},
   secret : Secrets,
   max_retries : {1},
   sources : {0, 1}]

\* One run of the RPC path in rpc mode.
InitRpc ==
  /\ file = FileOne
  /\ backup = NoFile
  /\ option \in InitOptions
  /\ cfg \in RpcConfigs
  /\ pc = "update_bt_trackers"
  /\ caller = "none"
  /\ path = "none"
  /\ old_set = {}
  /\ url = 1
  /\ attempt = 0
  /\ trackers = {}
  /\ new_trackers = <<>>
  /\ ret = NoRet
  /\ success = "none"
  /\ exit_code = 0
  /\ runs = 1
  /\ rpc_log = <<>>
  /\ fetch_log = NoFetch
  /\ hist = [NoHist EXCEPT !.run_file = file, !.run_backup = backup,
                           !.run_option = option, !.path_file = file]
  /\ faults = 0

NextRpc ==
  \/ UpdateBtTrackers
  \/ RpcTestConnection
  \/ RpcGetBtTracker
  \/ FetchAttemptOk
  \/ FetchAttemptFails
  \/ FetchReturn
  \/ RpcUpdate
  \/ RpcReturned
  \/ MainEnd
  \/ Finally

SpecRpc == InitRpc /\ [][NextRpc]_vars

\* =============================================================== claims

Last(q) == q[Len(q)]

\* Every tracker some bt-tracker= line of a file holds.
TrackersHeld(content) ==
  IF content = NoFile THEN {}
  ELSE LET lines == ReadLines(content)
       IN UNION {Range(StripNonEmpty(ReSplitRuns(DirectiveValue(lines[i]),
                                                   {COMMA, NL}))) :
                   i \in {j \in 1..Len(lines) : IsDirectiveLine(lines[j])}}

\* The config path, or the RPC path, has just ended.
ConfigPathOver == pc \in {"config_returned", "hybrid_after_config"}

RpcPathOver == pc = "rpc_returned" \/ (pc = "hybrid_finish" /\ path = "rpc")

\* new_trackers is what path p fetched.
LastFetchBy(p) == hist.fetches # <<>> /\ Last(hist.fetches) = p

Sent(method) == \E i \in 1..Len(rpc_log) : rpc_log[i].method = method

\* C1: after a config-path update that returned True, the bt-tracker lines
\* of the file hold every tracker its bt-tracker lines held before and every
\* fetched tracker.
C1_MergeNeverDrops ==
  (ConfigPathOver /\ ret.config = "true") =>
     (TrackersHeld(hist.path_file) \cup Range(new_trackers)) \subseteq TrackersHeld(file)

\* C2: when the aria2.getGlobalOption request fails, the RPC path fails and
\* sends no aria2.changeGlobalOption.
C2_OptionQueryFailureIsFatal ==
  (\E i \in 1..Len(rpc_log) :
      rpc_log[i].method = "aria2.getGlobalOption" /\ ~rpc_log[i].ok) =>
     /\ ~Sent("aria2.changeGlobalOption")
     /\ RpcPathOver => ret.rpc = "false"

\* C3: a path whose fetch returned no tracker fails; the config path leaves
\* the file as it found it, the RPC path sends no aria2.changeGlobalOption
\* and leaves the option alone.
C3_EmptyFetchAborts ==
  /\ (ConfigPathOver /\ LastFetchBy("config") /\ new_trackers = <<>>) =>
        (ret.config = "false" /\ file = hist.path_file)
  /\ (RpcPathOver /\ LastFetchBy("rpc") /\ new_trackers = <<>>) =>
        /\ ret.rpc = "false"
        /\ ~Sent("aria2.changeGlobalOption")
        /\ option = hist.run_option

\* C3 witness: in rpc mode both the RPC path and the fallback config path
\* fetched nothing, and the fallback has ended.
C3_Witness ==
  /\ pc = "config_returned"
  /\ caller = "fallback"
  /\ hist.fetches = <<"rpc", "config">>
  /\ ret.rpc = "false"
  /\ new_trackers = <<>>
  /\ hist.path_file # NoFile

\* C4: during and after a dry run the config file, the backup file and the
\* service's option are what they were when the run started, and no
\* aria2.changeGlobalOption (indeed no request) was sent.
C4_DryRunTouchesNothing ==
  (cfg.dry_run /\ pc \notin {"idle", "finally", "exited"}) =>
     /\ file = hist.run_file
     /\ backup = hist.run_backup
     /\ option = hist.run_option
     /\ ~Sent("aria2.changeGlobalOption")

\* C4 witness: a dry run in hybrid mode with RPC enabled ended with success
\* and trackers it would have added.
C4_Witness ==
  /\ pc = "main_end"
  /\ cfg.dry_run
  /\ cfg.update_mode = "hybrid"
  /\ cfg.rpc_enabled
  /\ success = "true"
  /\ Added(old_set, new_trackers) # {}

\* The sources of the current fetch that answered 200, and what they gave.
AnsweredSources == {i \in DOMAIN fetch_log : fetch_log[i].state = "ok"}

UnionOfAnswered == UNION {SourceTrackers(fetch_log[i].body) : i \in AnsweredSources}

\* C5: when fetch_trackers returns, every source has either answered or used
\* up its attempts, and the returned list holds exactly the valid lines of the
\* sources that answered: a failed source adds nothing and costs nothing.
C5_SourceFailureIsolated ==
  [][(pc = "fetch" /\ pc' # "fetch") =>
        /\ \A i \in DOMAIN fetch_log : fetch_log[i].state \in {"ok", "failed"}
        /\ Range(new_trackers') = UnionOfAnswered]_vars

Min(a, b) == IF a < b THEN a ELSE b

\* Failed attempts of source i so far.
FailedAttempts(i) ==
  fetch_log[i].attempts - (IF fetch_log[i].state = "ok" THEN 1 ELSE 0)

\* C6: a source gets at most max_retries attempts, exactly max_retries when
\* all fail, none after its first success, and a source that stopped after k
\* failures took min(k, max_retries - 1) delays (max_retries >= 1).
C6_BoundedRetry ==
  /\ [](\A i \in DOMAIN fetch_log :
          /\ fetch_log[i].attempts <= cfg.max_retries
          /\ fetch_log[i].state = "failed" => fetch_log[i].attempts = cfg.max_retries
          /\ fetch_log[i].state = "pending" => fetch_log[i].delays = fetch_log[i].attempts
          /\ fetch_log[i].state # "pending" =>
               fetch_log[i].delays = Min(FailedAttempts(i), cfg.max_retries - 1))
  /\ [][\A i \in DOMAIN fetch_log :
          (fetch_log[i].state # "pending" /\ pc' = "fetch") =>
             fetch_log'[i] = fetch_log[i]]_vars

\* C6 witness: with at least two attempts allowed, the first source failed
\* once and then answered, the second failed every attempt.
C6_Witness ==
  /\ pc = "fetch"
  /\ url > cfg.sources
  /\ cfg.sources >= 2
  /\ cfg.max_retries >= 2
  /\ fetch_log[1].state = "ok"
  /\ fetch_log[1].attempts = 2
  /\ fetch_log[1].delays = 1
  /\ fetch_log[2].state = "failed"
  /\ fetch_log[2].delays = cfg.max_retries - 1

\* The rewrite the specification describes: the first directive line becomes
\* the new directive, every other line stays; with no directive line the new
\* one follows all lines.
FirstDirective(lines) ==
  LET hits == {i \in 1..Len(lines) : IsDirectiveLine(lines[i])}
  IN IF hits = {} THEN 0 ELSE CHOOSE i \in hits : \A j \in hits : i <= j

FirstOnlyRewrite(lines, directive) ==
  IF FirstDirective(lines) = 0 THEN Append(lines, directive)
  ELSE [lines EXCEPT ![FirstDirective(lines)] = directive]

\* C7: after a successful write the lines of the file are the lines found,
\* with the first directive line replaced by the merged directive (or the
\* merged directive added as a last line), all others unchanged.
C7_OnlyFirstDirectiveRewritten ==
  (ConfigPathOver /\ ret.config = "true") =>
     SplitLines(file) =
       FirstOnlyRewrite(SplitLines(hist.path_file),
                        <<DIRECTIVE>> \o Join(CombinedList(old_set, new_trackers), COMMA))

\* C8: the directive line written for a merged set reads back, through
\* extract_current_bt_trackers, as exactly that set.
C8_WriteReadRoundTrip ==
  (ConfigPathOver /\ ret.config = "true") =>
     Range(ExtractCurrentBtTrackers(
             <<TrackerLine(CombinedList(old_set, new_trackers))>>))
       = CombinedSet(old_set, new_trackers)

RpcModeRun == cfg.update_mode = "rpc" /\ cfg.rpc_enabled /\ ~cfg.dry_run

\* C9: in rpc mode with RPC enabled the config path runs only after the RPC
\* path has ended in failure, and only with fallback_to_config; at the end
\* it has run iff the RPC path failed and fallback is on, a successful
\* fallback used its own fetch, the result is success iff one of the two
\* paths succeeded, and without fallback the result is the RPC path's and
\* the config file and its backup are untouched.
C9_RpcModeFallback ==
  /\ (RpcModeRun /\ path = "config" /\ pc \notin {"idle", "finally", "exited"}) =>
        (ret.rpc = "false" /\ cfg.fallback_to_config
         /\ SubSeq(hist.paths, 1, 2) = << <<"rpc", "start">>, <<"rpc", "end">> >>)
  /\ (RpcModeRun /\ pc = "main_end") =>
        /\ ret.rpc \in {"true", "false"}
        /\ (ret.config # "none") <=> (ret.rpc # "true" /\ cfg.fallback_to_config)
        /\ ret.config = "true" => LastFetchBy("config")
        /\ (success = "true") <=> (ret.rpc = "true" \/ ret.config = "true")
        /\ ~cfg.fallback_to_config =>
             (success = ret.rpc /\ file = hist.run_file /\ backup = hist.run_backup)

\* C9 witness: the RPC path fetched and then failed, the fallback config
\* path fetched again and succeeded, and the update reports success.
C9_Witness ==
  /\ RpcModeRun
  /\ pc = "main_end"
  /\ ret.rpc = "false"
  /\ ret.config = "true"
  /\ hist.fetches = <<"rpc", "config">>
  /\ success = "true"

HybridRun == cfg.update_mode = "hybrid" /\ cfg.rpc_enabled /\ ~cfg.dry_run

\* C10: in hybrid mode with RPC enabled the RPC path has run at the end,
\* whether the config path succeeded, failed or raised; a path that succeeded
\* did its own fetch; the result is success iff a path succeeded.
C10_HybridIndependence ==
  (HybridRun /\ pc = "main_end") =>
     /\ ret.config \in {"true", "false", "raised"}
     /\ ret.rpc \in {"true", "false"}
     /\ hist.paths = << <<"config", "start">>, <<"config", "end">>,
                        <<"rpc", "start">>, <<"rpc", "end">> >>
     /\ ret.rpc = "true" => LastFetchBy("rpc")
     /\ ret.config = "true" => hist.fetches[1] = "config"
     /\ (ret.config = "true" /\ ret.rpc = "true") => hist.fetches = <<"config", "rpc">>
     /\ (success = "true") <=> (ret.config = "true" \/ ret.rpc = "true")

\* C10 witness: the config path raised, the RPC path still ran and
\* succeeded, and the update reports success.
C10_Witness ==
  /\ HybridRun
  /\ pc = "main_end"
  /\ ret.config = "raised"
  /\ ret.rpc = "true"
  /\ success = "true"

\* A run of the config path alone: config mode, or hybrid mode with RPC
\* disabled.
ConfigModeRun == cfg.update_mode = "config" /\ ~cfg.dry_run

HybridNoRpcRun == cfg.update_mode = "hybrid" /\ ~cfg.rpc_enabled /\ ~cfg.dry_run

\* What a run leaves behind as a function of what its config path met: the
\* file found, whether the backup copy was made or where it stopped, the old
\* and the fetched trackers, how the path ended and where a failed write
\* stopped.
ConfigOnlyFile ==
  IF ret.config = "true"
  THEN WrittenFile(hist.run_file, old_set, new_trackers)
  ELSE IF hist.torn_file >= 0
       THEN Torn(WrittenFile(hist.run_file, old_set, new_trackers),
                 hist.torn_file)
       ELSE hist.run_file

ConfigOnlyBackup ==
  IF hist.copied = "ok" THEN hist.run_file
  ELSE IF hist.torn_backup >= 0 THEN Torn(hist.run_file, hist.torn_backup)
       ELSE hist.run_backup

\* C11: hybrid mode with RPC disabled ends as config mode does: the same
\* function of what the config path met gives the file, the backup and the
\* success value in both modes (with a config path value set the success
\* value is the config path's result itself), only the config path has run,
\* and no RPC request was sent.
C11_HybridNoRpcIsConfigOnly ==
  ((ConfigModeRun \/ HybridNoRpcRun) /\ pc = "main_end") =>
     /\ file = ConfigOnlyFile
     /\ backup = ConfigOnlyBackup
     /\ (success = "true") <=> (ret.config = "true")
     /\ cfg.conf_path_set => success = ret.config
     /\ ret.rpc = "none"
     /\ hist.paths = << <<"config", "start">>, <<"config", "end">> >>
     /\ rpc_log = <<>>
     /\ option = hist.run_option

\* C11 witness: hybrid mode with RPC disabled rewrote the file after a
\* backup copy and reports success.
C11_Witness ==
  /\ HybridNoRpcRun
  /\ pc = "main_end"
  /\ ret.config = "true"
  /\ success = "true"
  /\ hist.copied = "ok"
  /\ file # hist.run_file
  /\ backup = hist.run_file

\* The aria2.getVersion request of this run failed.
VersionQueryFailed ==
  \E i \in 1..Len(rpc_log) :
     rpc_log[i].method = "aria2.getVersion" /\ ~rpc_log[i].ok

\* C12: the first request of a run is aria2.getVersion, an
\* aria2.changeGlobalOption comes only after an aria2.getVersion that
\* succeeded, and when the version query failed it is the run's only request,
\* the RPC path has failed, it never fetched, and the option is untouched.
C12_ConnectivityFirst ==
  /\ rpc_log # <<>> => rpc_log[1].method = "aria2.getVersion"
  /\ \A i \in 1..Len(rpc_log) :
        rpc_log[i].method = "aria2.changeGlobalOption" =>
           \E j \in 1..(i - 1) :
              rpc_log[j].method = "aria2.getVersion" /\ rpc_log[j].ok
  /\ VersionQueryFailed =>
        /\ Len(rpc_log) = 1
        /\ ret.rpc = "false"
        /\ ~(path = "rpc" /\ pc \in {"rpc_get", "fetch", "rpc_update"})
        /\ \A i \in 1..Len(hist.fetches) : hist.fetches[i] # "rpc"
        /\ option = hist.run_option

\* C12 witness: in hybrid mode the config path succeeded, then the version
\* query failed and the RPC path ended at once.
C12_Witness ==
  /\ pc = "hybrid_finish"
  /\ path = "rpc"
  /\ VersionQueryFailed
  /\ ret.config = "true"
  /\ ret.rpc = "false"
  /\ hist.fetches = <<"config">>

\* The aria2.changeGlobalOption requests of this run.
ChangeRequests(log) ==
  {i \in 1..Len(log) : log[i].method = "aria2.changeGlobalOption"}

\* C13: a run sends at most one aria2.changeGlobalOption, and a step that
\* sends one whose result does not come back (transport error, status other
\* than 200, 'error' member, answer that is not JSON) ends the RPC path with
\* False, not with an exception, and sends nothing more, whether or not the
\* service made the change.
C13_SingleAttemptPush ==
  /\ [](Cardinality(ChangeRequests(rpc_log)) <= 1)
  /\ [][(ChangeRequests(rpc_log') \ ChangeRequests(rpc_log) # {}
         /\ ~Last(rpc_log').ok) =>
           /\ ret'.rpc = "false"
           /\ pc' \in {"rpc_returned", "hybrid_finish"}
           /\ Len(rpc_log') = Len(rpc_log) + 1]_vars
  /\ [](RpcPathOver /\ rpc_log # <<>> /\ ~Last(rpc_log).ok => ret.rpc = "false")

\* C13 witness: the one aria2.changeGlobalOption of the run failed and the
\* RPC path returned False, although the service made the change.
C13_Witness ==
  /\ RpcPathOver
  /\ Cardinality(ChangeRequests(rpc_log)) = 1
  /\ ~Last(rpc_log).ok
  /\ Last(rpc_log).method = "aria2.changeGlobalOption"
  /\ ret.rpc = "false"
  /\ option # hist.run_option
  /\ option = Last(rpc_log).params[Len(Last(rpc_log).params)].value

\* The config path is past validate_config_file.
ConfigPathWorking ==
  path = "config" /\ pc \in {"config_backup", "config_read", "fetch", "config_write"}

\* C14: the config path gets past its validation only with an existing file;
\* a validation that fails (file missing, not readable or not writable) ends
\* the path with False at once: the file and the backup are what they were,
\* and no fetch was started.
C14_PreconditionsFirst ==
  /\ [](ConfigPathWorking => (cfg.conf_path_set /\ file # NoFile))
  /\ [][(pc = "config_start" /\ cfg.conf_path_set
         /\ pc' \notin {"config_backup", "finally"}) =>
           /\ ret'.config = "false"
           /\ pc' \in {"config_returned", "hybrid_after_config"}
           /\ file' = file
           /\ backup' = backup
           /\ hist'.copied = "none"
           /\ hist'.fetches = hist.fetches
           /\ fetch_log' = fetch_log]_vars

\* C14 witness: with backup enabled and the file present the config path
\* ended with False, no copy attempted and nothing fetched: the file was not
\* readable or not writable.
C14_Witness ==
  /\ ConfigPathOver
  /\ cfg.conf_path_set
  /\ cfg.backup_enabled
  /\ file # NoFile
  /\ ret.config = "false"
  /\ hist.copied = "none"
  /\ hist.fetches = <<>>
  /\ backup = hist.run_backup
  /\ file = hist.run_file

\* C15: when the config path has written the file after a backup copy that
\* succeeded, the backup file holds the content the file had before the
\* write; a copy is attempted only with backup enabled and before the fetch
\* and the write; a copy that fails ends nothing: the path goes on to the
\* read with the file untouched and no result set, and a path that wrote
\* after a failed copy returned True with the merged line in the file; a
\* run with backup disabled attempts no copy and leaves the backup file as
\* it found it (none, if no earlier run made one).
C15_BackupBeforeWrite ==
  /\ []((ConfigPathOver /\ ret.config = "true" /\ hist.copied = "ok") =>
           (backup = hist.path_file /\ cfg.backup_enabled))
  /\ []((pc \in {"config_start", "config_backup"}) =>
           (hist.copied = "none" /\ file = hist.path_file))
  /\ []((pc \notin {"idle", "finally", "exited"} /\ ~cfg.backup_enabled) =>
           (backup = hist.run_backup /\ hist.copied = "none"))
  /\ [][(pc = "config_backup" /\ hist'.copied = "failed") =>
          /\ cfg.backup_enabled
          /\ pc' = "config_read"
          /\ file' = file
          /\ ret' = ret
          /\ hist'.paths = hist.paths]_vars
  /\ []((ConfigPathOver /\ ret.config = "true" /\ hist.copied = "failed") =>
           file = WrittenFile(hist.path_file, old_set, new_trackers))

\* C15 witness: the first run copied an initial file and rewrote it; the
\* second run, with backup enabled, rewrote the file again although its
\* copy had failed, and the backup still holds the initial file.
C15_Witness ==
  /\ ConfigPathOver
  /\ runs = 2
  /\ cfg.backup_enabled
  /\ hist.copied = "failed"
  /\ ret.config = "true"
  /\ hist.run_file \notin InitFiles
  /\ backup = hist.run_backup
  /\ backup \in InitFiles \ {NoFile}
  /\ file = WrittenFile(hist.run_file, old_set, new_trackers)
  /\ file # hist.run_file

\* A path has computed its merge: it fetched something and went on to write
\* or push.
MergeComputed ==
  /\ new_trackers # <<>>
  /\ \/ ConfigPathOver /\ LastFetchBy("config")
     \/ RpcPathOver /\ LastFetchBy("rpc")

\* C16: for the old set and the fetched list a path merged, the merged list
\* is the same with old and fetched exchanged, merging a set with itself
\* gives the set, removed is empty, added is disjoint from old, added and old
\* together are the merged set, and the merged list is what a successful RPC
\* path pushed.
C16_MergeAlgebra ==
  MergeComputed =>
     LET fresh == Range(new_trackers)
     IN /\ CombinedList(old_set, new_trackers)
             = CombinedList(fresh, Sorted(old_set))
        /\ CombinedSet(old_set, Sorted(old_set)) = old_set
        /\ CombinedSet(fresh, new_trackers) = fresh
        /\ CombinedSet(CombinedSet(old_set, new_trackers), new_trackers)
             = CombinedSet(old_set, new_trackers)
        /\ Removed(old_set, new_trackers) = {}
        /\ Added(old_set, new_trackers) \cap old_set = {}
        /\ Added(old_set, new_trackers) \cup old_set
             = CombinedSet(old_set, new_trackers)
        /\ (RpcPathOver /\ ret.rpc = "true") =>
              Last(rpc_log).params[Len(Last(rpc_log).params)].value
                = Join(CombinedList(old_set, new_trackers), COMMA)

\* C16 witness: the RPC path pushed a merge of an old set and a fetched list
\* that overlap, each holding a tracker the other lacks.
C16_Witness ==
  /\ RpcPathOver
  /\ LastFetchBy("rpc")
  /\ ret.rpc = "true"
  /\ old_set \cap Range(new_trackers) # {}
  /\ old_set \ Range(new_trackers) # {}
  /\ Range(new_trackers) \ old_set # {}

\* Candidate strings: every text of at most MaxCandidateLen of these pieces.
CandidateTokens == {"http://", "https://", "udp://", "ftp://", "x", HASH, SP, COMMA}

MaxCandidateLen == 3

Candidates == UNION {[1..n -> CandidateTokens] : n \in 0..MaxCandidateLen}

\* The predicate of the specification: an accepted scheme in front and
\* something after it.
AcceptedScheme(c) ==
  \E p \in {<<"http://">>, <<"https://">>, <<"udp://">>} :
     StartsWith(c, p) /\ Len(c) > Len(p)

\* is_valid_tracker and the specification's predicate agree on every candidate.
CandidatesAgree == \A c \in Candidates : IsValidTracker(c) <=> AcceptedScheme(c)

\* C17: is_valid_tracker is true exactly of the candidates that start with
\* http://, https:// or udp:// and go on after it (true of udp://x, false of
\* http://, of ftp://x and of the empty string), and every tracker the fetch
\* holds or has returned is valid, non-empty, trimmed and no comment.
C17_ValidTrackerPredicate ==
  /\ CandidatesAgree
  /\ IsValidTracker(<<"udp://", "x">>)
  /\ ~IsValidTracker(<<"http://">>)
  /\ ~IsValidTracker(<<"ftp://", "x">>)
  /\ ~IsValidTracker(<<>>)
  /\ \A t \in trackers \cup Range(new_trackers) :
        /\ IsValidTracker(t)
        /\ t # <<>>
        /\ Strip(t) = t
        /\ Head(t) # HASH

\* C17 witness: a source answered with nothing but an ftp line, a bare
\* http:// and a comment, another with two padded trackers among a comment
\* and a blank line, and the fetch holds exactly the two trackers.
C17_Witness ==
  /\ pc = "fetch"
  /\ cfg.sources >= 2
  /\ url > cfg.sources
  /\ fetch_log[1].state = "ok"
  /\ fetch_log[1].body = BodyInvalid
  /\ fetch_log[2].state = "ok"
  /\ fetch_log[2].body = BodyPlain
  /\ trackers = {TX, TY}

\* How a run that ended counts: the update or the dry run succeeded, or the
\* command only informed (--list-sources, --test-rpc).
RunSucceeded == success \in {"true", "listed", "tested", "test_failed"}

\* C18: a process that has exited did so with status 0 exactly when its run
\* succeeded or only informed, and a run cut short by an interrupt did not
\* exit with status 0.
C18_ExitStatus ==
  pc = "exited" =>
     /\ (exit_code = 0) <=> RunSucceeded
     /\ success = "interrupted" => exit_code # 0

\* args are the arguments the call of this request passes to _make_request:
\* none for the two queries, for the change the one options object, which
\* holds the merged list of the RPC path (its old_set and new_trackers are
\* in place while the path is the current one).
OwnArguments(request, args) ==
  IF request.method = "aria2.changeGlobalOption"
  THEN /\ Len(args) = 1
       /\ args[1].kind = "options"
       /\ path = "rpc" =>
             args[1].value = Join(CombinedList(old_set, new_trackers), COMMA)
  ELSE args = <<>>

TokenCount(params) ==
  Cardinality({k \in 1..Len(params) : params[k].kind = "token"})

\* C19: every request sent carries, with a secret configured, the token
\* token:<secret> as its first parameter, once, followed by the call's own
\* arguments, and without a secret just those arguments and no token; no two
\* requests of a run share their id.
C19_TokenPlacement ==
  /\ \A i \in 1..Len(rpc_log) :
        LET r == rpc_log[i]
        IN /\ r.method \in {"aria2.getVersion", "aria2.getGlobalOption",
                            "aria2.changeGlobalOption"}
           /\ IF cfg.secret # ""
              THEN /\ r.params # <<>>
                   /\ r.params[1] = [kind |-> "token",
                                     value |-> <<"token:", cfg.secret>>]
                   /\ TokenCount(r.params) = 1
                   /\ OwnArguments(r, Tail(r.params))
              ELSE /\ TokenCount(r.params) = 0
                   /\ OwnArguments(r, r.params)
  /\ \A i, j \in 1..Len(rpc_log) : i # j => rpc_log[i].id # rpc_log[j].id

\* C19 witness: with a secret configured the three requests of the RPC path
\* were sent, the last one the change that carries the token and then the
\* options, and it succeeded.
C19_Witness ==
  /\ cfg.secret = "s"
  /\ Len(rpc_log) = 3
  /\ rpc_log[1].method = "aria2.getVersion"
  /\ rpc_log[2].method = "aria2.getGlobalOption"
  /\ rpc_log[3].method = "aria2.changeGlobalOption"
  /\ rpc_log[3].ok
  /\ Len(rpc_log[3].params) = 2
  /\ rpc_log[3].params[2].kind = "options"
  /\ rpc_log[3].params[2].value = option
  /\ option # <<>>

\* Every order in which n sources can be configured.
Orders(n) == {f \in [1..n -> 1..n] : \A i, j \in 1..n : f[i] = f[j] => i = j}

\* The set the source loop collects when the sources are visited in the
\* given order, each giving what is recorded for it: nothing if it failed,
\* else the valid lines of its answer less those whose check was interrupted.
RECURSIVE FetchInOrder(_, _, _)
FetchInOrder(log, order, k) ==
  IF k > Len(order) THEN {}
  ELSE (IF log[order[k]].state = "ok"
        THEN SourceTrackers(log[order[k]].body) \ log[order[k]].lost
        ELSE {})
       \cup FetchInOrder(log, order, k + 1)

StrictlyAscending(l) == \A i \in 1..(Len(l) - 1) : StrLess(l[i], l[i + 1])

\* C20: the list fetch_trackers returns is the one it would return for the
\* same answers with the sources in any other order, and the returned list
\* and the merged list are strictly ascending (so without duplicates).
C20_FetchOrderIndependent ==
  /\ [](/\ StrictlyAscending(new_trackers)
        /\ StrictlyAscending(CombinedList(old_set, new_trackers)))
  /\ [][(pc = "fetch" /\ pc' # "fetch") =>
           \A order \in Orders(cfg.sources) :
              new_trackers' = Sorted(FetchInOrder(fetch_log, order, 1))]_vars

\* C20 witness: two sources gave different answers and the fetch returned
\* their four trackers in ascending order.
C20_Witness ==
  /\ pc = "dry_diff"
  /\ cfg.sources >= 2
  /\ new_trackers = <<TX, TComma, TSpace, TY>>

\* The reader the specification describes: the segments of the first
\* directive line, whatever its value; nothing without a directive line.
FirstDirectiveTrackers(lines) ==
  IF FirstDirective(lines) = 0 THEN <<>>
  ELSE StripNonEmpty(ReSplitRuns(DirectiveValue(lines[FirstDirective(lines)]),
                                 {COMMA, NL}))

\* A path has read the config file and holds what it extracted.
FileWasRead == pc = "fetch" /\ path \in {"config", "dry"}

\* C21: what extract_current_bt_trackers returns for the file a path read is
\* the list of trimmed non-empty segments of the file's first directive line
\* (empty without such a line, and empty when that line has an empty value
\* even if a later directive line holds trackers), and old_set is its set.
C21_FirstDirectiveOnly ==
  FileWasRead =>
     /\ ExtractCurrentBtTrackers(ReadLines(file))
          = FirstDirectiveTrackers(ReadLines(file))
     /\ old_set = Range(FirstDirectiveTrackers(ReadLines(file)))

RpcDisabledRun == cfg.update_mode = "rpc" /\ ~cfg.rpc_enabled /\ ~cfg.dry_run

\* C22: in rpc mode with RPC disabled no RPC request is ever sent, the RPC
\* path never gets to query, fetch or push, and the service's option stays
\* as it was; without fallback_to_config the update fails with no path run
\* and the config file and its backup untouched; with fallback_to_config
\* the config path alone runs, and file, backup and result are the config
\* path's.
C22_RpcModeDisabled ==
  /\ (RpcDisabledRun /\ pc \notin {"idle", "finally", "exited"}) =>
        /\ rpc_log = <<>>
        /\ option = hist.run_option
        /\ pc \notin {"rpc_get", "rpc_update"}
        /\ "rpc" \notin Range(hist.fetches)
  /\ (RpcDisabledRun /\ pc = "main_end") =>
        IF cfg.fallback_to_config
        THEN /\ hist.paths = << <<"config", "start">>, <<"config", "end">> >>
             /\ success = ret.config
             /\ file = ConfigOnlyFile
             /\ backup = ConfigOnlyBackup
        ELSE /\ success = "false"
             /\ hist.paths = <<>>
             /\ hist.fetches = <<>>
             /\ file = hist.run_file
             /\ backup = hist.run_backup

\* C22 witness: rpc mode with RPC disabled and fallback on ends in success
\* with the config file rewritten by the config path.
C22_Witness ==
  /\ RpcDisabledRun
  /\ cfg.fallback_to_config
  /\ pc = "main_end"
  /\ success = "true"
  /\ file # hist.run_file
  /\ file = WrittenFile(hist.run_file, old_set, new_trackers)

\* The config path got past validate_config_file with backup enabled.
PassedWithBackup == cfg.backup_enabled /\ hist.copied # "none"

\* The config path got to the write of lines 500-501: its own fetch gave
\* something.
WriteAttempted == LastFetchBy("config") /\ new_trackers # <<>>

\* The config path ended before the write: the read failed or its fetch was
\* empty.
ConfigPathAborted == ConfigPathOver /\ ret.config = "false" /\ ~WriteAttempted

\* C23 as stated: once the config path is past its preconditions with backup
\* enabled, the backup file holds the content the config file had at the
\* start of the run, and a path that then aborts before the write leaves the
\* config file as it was.
C23_BackupAtEveryPass ==
  /\ (pc \notin {"idle", "finally", "exited"} /\ PassedWithBackup) =>
        backup = hist.run_file
  /\ (ConfigPathAborted /\ PassedWithBackup) => file = hist.run_file

\* C23, amended: the copy is attempted before the fetch starts, with backup
\* enabled, and only there does the backup file change (also when an
\* interrupt ends the run during the copy); once a copy has succeeded the
\* backup holds, to the end of the run, the content the config file had at
\* the start of the run, also when the path then aborts, and a path that
\* aborts before the write leaves the config file as it was.
C23_BackupAtCopy ==
  /\ []((pc \notin {"idle", "finally", "exited"} /\ hist.copied = "ok") =>
           (backup = hist.run_file /\ cfg.backup_enabled))
  /\ []((ConfigPathAborted /\ PassedWithBackup) => file = hist.run_file)
  /\ []((path = "config" /\ pc \in {"fetch", "config_write"}
         /\ cfg.backup_enabled) => hist.copied # "none")
  /\ [][backup' # backup =>
          /\ pc = "config_backup"
          /\ pc' \in {"config_read", "finally"}
          /\ cfg.backup_enabled
          /\ "config" \notin Range(hist.fetches)
          /\ hist'.copied = "ok" => backup' = file
          /\ file' = file]_vars

\* C23 witness: the first run copied and rewrote the file; the second run
\* copied and then aborted on an empty fetch, so the backup is the file as
\* the first run wrote it, and the content from before that write is gone.
C23_Witness ==
  /\ ConfigPathAborted
  /\ runs = 2
  /\ hist.copied = "ok"
  /\ hist.fetches = <<"config">>
  /\ new_trackers = <<>>
  /\ hist.run_backup \in InitFiles \ {NoFile}
  /\ hist.run_file \notin InitFiles
  /\ backup = hist.run_file
  /\ file = hist.run_file

\* The file a run started from is what a successful config-path run over an
\* initial file writes when it fetches what this run fetched.
FirstRunWroteSame ==
  \E f0 \in InitFiles \ {NoFile} :
     hist.run_file =
       WrittenFile(f0, Range(ExtractCurrentBtTrackers(ReadLines(f0))), new_trackers)

\* C24: when a second config-path run succeeds over the file a successful
\* first run wrote, with the same fetched trackers, the file after the second
\* run is the file it started from and the second run's added set is empty.
C24_RerunIdempotent ==
  (ConfigPathOver /\ runs = 2 /\ ret.config = "true" /\ FirstRunWroteSame) =>
     /\ file = hist.run_file
     /\ Added(old_set, new_trackers) = {}

====
